---- MODULE Spec2Model ----
(***************************************************************************)
(* Model of the toroidal Game-of-Life board of bio-rust                    *)
(* (src/src/universe.rs): construction from a DNA seed, toggle, and tick   *)
(* with its row/column loop and its private neighbour count; of the        *)
(* geometry mapper create_grid_vertices (src/src/vertex.rs); and of the    *)
(* event loop of src/src/main.rs, which owns a board and the vertex list   *)
(* grid_data and handles left clicks and the 200 ms timer.                 *)
(*                                                                         *)
(* Spec is the board under any sequence of calls of its methods; MainSpec  *)
(* is the program main.  main builds a 10 x 10 board; MainSpec runs the    *)
(* same handlers on every board of MainDims.                               *)
(*                                                                         *)
(* Every f32 of the layout is a multiple of 0.001 and is written as that   *)
(* integer multiple (0.08 is 80, -0.6 is -600); the click points of the    *)
(* model are at least 0.01 from every edge they are compared with or lie   *)
(* on it exactly, so f32 rounding decides no comparison.                   *)
(*                                                                         *)
(* Vec<bool> is a sequence of BOOLEAN; the 0-based index idx of the code   *)
(* is position idx + 1 of the sequence.  Every u32 value of the model is   *)
(* far below 2^32 (boards have at most MaxCells cells and toggle's         *)
(* arguments are at most MaxDim), so no sum or product wraps and the       *)
(* arithmetic is written over the integers; rows - 1 and cols - 1 are only *)
(* evaluated inside tick's loops, where rows >= 1 and cols >= 1.  A panic  *)
(* (index out of bounds) ends the program: pc = "panicked" has no          *)
(* successor.                                                              *)
(***************************************************************************)
EXTENDS Integers, Sequences, FiniteSets, TLC

VARIABLES
    cells,           \* Universe.cells
    rows,            \* Universe.rows
    cols,            \* Universe.cols
    pc,              \* "idle", "tick" (inside tick's loops) or "panicked"
    next,            \* tick: the local buffer `next`
    row,             \* tick: loop variable row
    col,             \* tick: loop variable col
    live_neighbors,  \* tick: the local `live_neighbors` of the last iteration
    last,            \* the last operation called, with its arguments
    prev,            \* the operation called before `last` (without its seed)
    pre,             \* cells when `last` was called
    pre2,            \* cells when `prev` was called
    grid_data        \* main: the vertex list last derived (<<>> outside main)

vars == <<cells, rows, cols, pc, next, row, col, live_neighbors, last, prev, pre, pre2,
          grid_data>>

----------------------------------------------------------------------------
(* Bounds of the model *)

MaxDim == 3          \* rows and cols range over 0..MaxDim
MaxCells == 9        \* boards have at most MaxCells cells
MaxSeedLen == 4      \* DNA seeds have at most MaxSeedLen bases

(* Bytes of the seed alphabet *)
ByteG == 71
ByteC == 67
ByteA == 65
ByteT == 84

Bases == {ByteG, ByteC, ByteA, ByteT}

RECURSIVE SeqsUpTo(_, _)
SeqsUpTo(S, n) ==
    IF n = 0 THEN {<<>>}
    ELSE LET shorter == SeqsUpTo(S, n - 1)
         IN  shorter \cup {Append(s, b) : s \in {t \in shorter : Len(t) = n - 1}, b \in S}

Seeds == SeqsUpTo(Bases, MaxSeedLen)

Dims == {d \in (0..MaxDim) \X (0..MaxDim) : d[1] * d[2] <= MaxCells}

\* arguments a caller may pass to toggle: in bounds or past an edge of the board
Args == 0..MaxDim

----------------------------------------------------------------------------
(* Universe::new *)

\* a seeding that knows only the base G
IsG_only(base) == base = ByteG

IsGC(base) == base = ByteG \/ base = ByteC

RECURSIVE seed_loop(_, _, _)
\* the for loop of new: i is the 0-based enumerate() index
seed_loop(cs, dna, i) ==
    IF i >= Len(dna) THEN cs
    ELSE IF i >= Len(cs) THEN cs
    ELSE seed_loop(IF IsGC(dna[i + 1]) THEN [cs EXCEPT ![i + 1] = TRUE] ELSE cs,
                   dna, i + 1)

vec_false(n) == [i \in 1..n |-> FALSE]

\* an allocation of rows * rows cells
new_square(rs, co, dna) == seed_loop(vec_false(rs * rs), dna, 0)

new(rs, co, dna) == seed_loop(vec_false(rs * co), dna, 0)

----------------------------------------------------------------------------
(* Universe::toggle *)

\* row and column swapped in the index
toggle_idx_transposed(co, r, c) == c * co + r

toggle_idx(co, r, c) == r * co + c

\* a toggle that sets the cell instead of negating it
toggle_cells_set(cs, idx) == [cs EXCEPT ![idx + 1] = TRUE]

toggle_cells(cs, idx) == [cs EXCEPT ![idx + 1] = ~cs[idx + 1]]

----------------------------------------------------------------------------
(* Universe::live_neighbor_count *)

delta_rows(rs) == <<rs - 1, 0, 1>>
delta_cols(co) == <<co - 1, 0, 1>>

\* the (delta_row, delta_col) pairs in the order the nested loops visit them
delta_pairs(rs, co) ==
    [k \in 1..9 |-> <<delta_rows(rs)[((k - 1) \div 3) + 1],
                      delta_cols(co)[((k - 1) % 3) + 1]>>]

\* a count that skips no offset, the cell's own included
skipped_none(d) == FALSE

skipped(d) == d[1] = 0 /\ d[2] = 0

\* a neighbour row that is not wrapped
neighbor_row_nowrap(rs, r, d) == r + d[1]

neighbor_row(rs, r, d) == (r + d[1]) % rs
\* a neighbour column that stops at the last column instead of wrapping
neighbor_col_clamped(co, c, d) == IF c + d[2] >= co THEN co - 1 ELSE c + d[2]

neighbor_col(co, c, d) == (c + d[2]) % co

neighbor_idx(rs, co, r, c, d) ==
    neighbor_row(rs, r, d) * co + neighbor_col(co, c, d)

\* the indices live_neighbor_count reads, in order
neighbor_indices(rs, co, r, c) ==
    LET kept == SelectSeq(delta_pairs(rs, co), LAMBDA d : ~skipped(d))
    IN  [k \in 1..Len(kept) |-> neighbor_idx(rs, co, r, c, kept[k])]

RECURSIVE count_live(_, _, _)
count_live(cs, idxs, k) ==
    IF k > Len(idxs) THEN 0
    ELSE (IF cs[idxs[k] + 1] THEN 1 ELSE 0) + count_live(cs, idxs, k + 1)

live_neighbor_count(cs, rs, co, r, c) ==
    count_live(cs, neighbor_indices(rs, co, r, c), 1)

----------------------------------------------------------------------------
(* Universe::tick *)

\* a rule in which a live cell survives with 2 neighbours only
next_state_survive2(alive, x) ==
    IF alive /\ x < 2 THEN FALSE
    ELSE IF alive /\ x = 2 THEN TRUE
    ELSE IF alive /\ x > 2 THEN FALSE
    ELSE IF ~alive /\ x = 3 THEN TRUE
    ELSE alive

\* a rule in which a dead cell is born with 3 neighbours or fewer
next_state_birth_le3(alive, x) ==
    IF alive /\ x < 2 THEN FALSE
    ELSE IF alive /\ (x = 2 \/ x = 3) THEN TRUE
    ELSE IF alive /\ x > 3 THEN FALSE
    ELSE IF ~alive /\ x <= 3 THEN TRUE
    ELSE alive

next_state(alive, x) ==
    IF alive /\ x < 2 THEN FALSE
    ELSE IF alive /\ (x = 2 \/ x = 3) THEN TRUE
    ELSE IF alive /\ x > 3 THEN FALSE
    ELSE IF ~alive /\ x = 3 THEN TRUE
    ELSE alive

\* an in-place update: the cells already written are read back
read_buffer_in_place(cs, nx) == nx

\* the vector tick reads cell states and neighbour counts from: self.cells
read_buffer(cs, nx) == cs

cell_idx(co, r, c) == r * co + c

\* every index one loop iteration uses
iteration_indices(rs, co, r, c) ==
    {neighbor_indices(rs, co, r, c)[k] : k \in 1..Len(neighbor_indices(rs, co, r, c))}
        \cup {cell_idx(co, r, c)}

\* the vector a whole tick leaves in cells: every iteration reads cs and writes
\* its own index of next
tick_result(cs, rs, co) ==
    [i \in 1..Len(cs) |->
        IF (i - 1) \div co < rs
        THEN next_state(cs[i], live_neighbor_count(cs, rs, co, (i - 1) \div co, (i - 1) % co))
        ELSE cs[i]]

----------------------------------------------------------------------------
(* create_grid_vertices: lengths and colours in units of 0.001 *)

CellSize == 80       \* let cell_size = 0.08
Origin == 600        \* the offsets are taken - 0.6

Padding == 20        \* let padding = 0.02

AliveColor == <<200, 800, 200>>
DeadColor == <<100, 100, 100>>

\* the two colours exchanged
cell_color_swapped(alive) == IF alive THEN DeadColor ELSE AliveColor

cell_color(alive) == IF alive THEN AliveColor ELSE DeadColor

x_offset(c, cell_size) == c * (cell_size + Padding) - Origin
y_offset(r, cell_size) == r * (cell_size + Padding) - Origin

Vertex(x, y, color) == [position |-> <<x, y>>, color |-> color]

\* the 6 vertices extend_from_slice appends for one cell
cell_vertices(x, y, cell_size, color) ==
    << Vertex(x, y + cell_size, color),
       Vertex(x, y, color),
       Vertex(x + cell_size, y, color),
       Vertex(x, y + cell_size, color),
       Vertex(x + cell_size, y, color),
       Vertex(x + cell_size, y + cell_size, color) >>

RECURSIVE vertices_loop(_, _, _, _, _)
\* the nested loops from their k-th iteration on: row = k div cols, col = k mod cols
vertices_loop(cs, rs, co, cell_size, k) ==
    IF k >= rs * co THEN <<>>
    ELSE LET r == k \div co
             c == k % co
             idx == r * co + c
         IN  cell_vertices(x_offset(c, cell_size), y_offset(r, cell_size), cell_size,
                           cell_color(cs[idx + 1]))
                 \o vertices_loop(cs, rs, co, cell_size, k + 1)

create_grid_vertices(cs, rs, co, cell_size) == vertices_loop(cs, rs, co, cell_size, 0)

----------------------------------------------------------------------------
(* Operation records *)

Op(op, a, b, dna, outcome) ==
    [op |-> op, a |-> a, b |-> b, dna |-> dna, outcome |-> outcome]

NoOp == Op("none", 0, 0, <<>>, "ok")

----------------------------------------------------------------------------
(* The state machine *)

Init ==
    \E d \in Dims, dna \in Seeds :
        /\ rows = d[1]
        /\ cols = d[2]
        /\ cells = new(d[1], d[2], dna)
        /\ pc = "idle"
        /\ next = <<>>
        /\ row = 0
        /\ col = 0
        /\ live_neighbors = 0
        /\ last = Op("new", d[1], d[2], dna, "ok")
        /\ prev = NoOp
        /\ pre = <<>>
        /\ pre2 = <<>>
        /\ grid_data = <<>>

Toggle(r, c) ==
    /\ pc = "idle"
    /\ LET idx == toggle_idx(cols, r, c)
       IN  IF idx < Len(cells)
           THEN /\ cells' = toggle_cells(cells, idx)
                /\ pc' = "idle"
                /\ last' = Op("toggle", r, c, <<>>, "ok")
           ELSE /\ cells' = cells
                /\ pc' = "panicked"
                /\ last' = Op("toggle", r, c, <<>>, "panic")
    /\ prev' = [last EXCEPT !.dna = <<>>]
    /\ pre' = cells
    /\ pre2' = pre
    /\ UNCHANGED <<rows, cols, next, row, col, live_neighbors, grid_data>>

\* tick is entered: next is the clone of cells
TickStart ==
    /\ pc = "idle"
    /\ next' = cells
    /\ row' = 0
    /\ col' = 0
    /\ live_neighbors' = 0
    /\ pc' = "tick"
    /\ last' = Op("tick", 0, 0, <<>>, "ok")
    /\ pre' = cells
    /\ UNCHANGED <<cells, rows, cols, grid_data>>

TickBegin ==
    /\ TickStart
    /\ prev' = [last EXCEPT !.dna = <<>>]
    /\ pre2' = pre

TickCell ==
    /\ pc = "tick"
    /\ row < rows
    /\ col < cols
    /\ IF \A i \in iteration_indices(rows, cols, row, col) : i < Len(cells)
       THEN LET src == read_buffer(cells, next)
                n == live_neighbor_count(src, rows, cols, row, col)
                idx == cell_idx(cols, row, col)
            IN  /\ live_neighbors' = n
                /\ next' = [next EXCEPT ![idx + 1] = next_state(src[idx + 1], n)]
                /\ IF col + 1 < cols
                   THEN row' = row /\ col' = col + 1
                   ELSE row' = row + 1 /\ col' = 0
                /\ UNCHANGED <<pc, last>>
       ELSE /\ pc' = "panicked"
            /\ last' = Op("tick", 0, 0, <<>>, "panic")
            /\ UNCHANGED <<next, row, col, live_neighbors>>
    /\ UNCHANGED <<cells, rows, cols, prev, pre, pre2, grid_data>>

\* the loops are over: next replaces cells and tick returns
TickReturn ==
    /\ pc = "tick"
    /\ ~(row < rows /\ col < cols)
    /\ cells' = next
    /\ next' = <<>>
    /\ row' = 0
    /\ col' = 0
    /\ live_neighbors' = 0
    /\ pc' = "idle"
    /\ UNCHANGED <<rows, cols, last, prev, pre, pre2>>

TickEnd ==
    /\ TickReturn
    /\ UNCHANGED grid_data

Next ==
    \/ \E r \in Args, c \in Args : Toggle(r, c)
    \/ TickBegin
    \/ TickCell
    \/ TickEnd

Spec == Init /\ [][Next]_vars

----------------------------------------------------------------------------
(* main: the board, grid_data and the event loop *)

\* b"GATCCAGATCGATCCGATCGATC"
MainDna ==
    << ByteG, ByteA, ByteT, ByteC, ByteC, ByteA, ByteG, ByteA, ByteT, ByteC, ByteG, ByteA,
       ByteT, ByteC, ByteC, ByteG, ByteA, ByteT, ByteC, ByteG, ByteA, ByteT, ByteC >>

\* the boards main is run on
MainDims == {d \in Dims : d[1] >= 1 /\ d[2] >= 1}

\* the coordinates of a click after normalisation: the centre of every column
\* (or row) up to MaxDim, a point inside the gap behind the first square and a
\* point before the grid
ClickCoords ==
    {k * (CellSize + Padding) - Origin + CellSize \div 2 : k \in 0..(MaxDim - 1)}
        \cup {CellSize + Padding \div 2 - Origin, (0 - Origin) - Padding \div 2}

\* Universe::new of main.rs
main_new(rs, co) == vec_false(rs * co)

\* the test of the handler with row and column exchanged
hit_transposed(x, y, r, c, cell_size) ==
    /\ x >= x_offset(r, cell_size) /\ x <= x_offset(r, cell_size) + cell_size
    /\ y >= y_offset(c, cell_size) /\ y <= y_offset(c, cell_size) + cell_size

\* a test that takes the padding around a square for part of it, so that the
\* areas of neighbouring cells overlap
hit_padded(x, y, r, c, cell_size) ==
    /\ x >= x_offset(c, cell_size) - Padding /\ x <= x_offset(c, cell_size) + cell_size + Padding
    /\ y >= y_offset(r, cell_size) - Padding /\ y <= y_offset(r, cell_size) + cell_size + Padding

hit(x, y, r, c, cell_size) ==
    /\ x >= x_offset(c, cell_size) /\ x <= x_offset(c, cell_size) + cell_size
    /\ y >= y_offset(r, cell_size) /\ y <= y_offset(r, cell_size) + cell_size

RECURSIVE click_loop(_, _, _, _, _, _, _)
\* the nested loops of the MouseInput handler from their k-th iteration on;
\* row < rows and col < cols, so toggle's index is below the length of cells
click_loop(cs, rs, co, x, y, cell_size, k) ==
    IF k >= rs * co THEN cs
    ELSE LET r == k \div co
             c == k % co
         IN  click_loop(IF hit(x, y, r, c, cell_size)
                        THEN toggle_cells(cs, toggle_idx(co, r, c))
                        ELSE cs,
                        rs, co, x, y, cell_size, k + 1)

\* some iteration of the handler's loops entered the if
any_hit(rs, co, x, y, cell_size) ==
    \E r \in 0..(rs - 1), c \in 0..(co - 1) : hit(x, y, r, c, cell_size)

MainInit ==
    \E d \in MainDims :
        /\ rows = d[1]
        /\ cols = d[2]
        /\ cells = main_new(d[1], d[2])
        /\ grid_data = create_grid_vertices(main_new(d[1], d[2]), d[1], d[2], CellSize)
        /\ pc = "idle"
        /\ next = <<>>
        /\ row = 0
        /\ col = 0
        /\ live_neighbors = 0
        /\ last = Op("main", d[1], d[2], MainDna, "ok")
        /\ prev = NoOp
        /\ pre = <<>>
        /\ pre2 = <<>>

\* MouseInput (left button pressed) at the normalised point (x, y)
Click(x, y) ==
    /\ pc = "idle"
    /\ cells' = click_loop(cells, rows, cols, x, y, CellSize, 0)
    /\ grid_data' = IF any_hit(rows, cols, x, y, CellSize)
                    THEN create_grid_vertices(cells', rows, cols, CellSize)
                    ELSE grid_data
    /\ last' = Op("click", x, y, <<>>, "ok")
    /\ pre' = cells
    /\ UNCHANGED <<rows, cols, pc, next, row, col, live_neighbors, prev, pre2>>

\* AboutToWait with 200 ms elapsed: universe.tick() is entered
TimerBegin ==
    /\ TickStart
    /\ UNCHANGED <<prev, pre2>>

\* a handler that forgets to derive grid_data after the tick
TimerEnd_stale ==
    /\ TickReturn
    /\ grid_data' = grid_data

\* tick returns and the handler derives grid_data again
TimerEnd ==
    /\ TickReturn
    /\ grid_data' = create_grid_vertices(cells', rows, cols, CellSize)

MainNext ==
    \/ \E x \in ClickCoords, y \in ClickCoords : Click(x, y)
    \/ TimerBegin
    \/ TickCell
    \/ TimerEnd

MainSpec == MainInit /\ [][MainNext]_vars

----------------------------------------------------------------------------
(* Properties *)

InBounds(r, c) == r < rows /\ c < cols

TickDone == pc = "idle" /\ last.op = "tick" /\ last.outcome = "ok"

RowOneAlive == <<FALSE, FALSE, FALSE, TRUE, TRUE, TRUE, FALSE, FALSE, FALSE>>
AllAlive9 == <<TRUE, TRUE, TRUE, TRUE, TRUE, TRUE, TRUE, TRUE, TRUE>>

\* C1: after a completed tick every cell is alive iff it was alive with
\* exactly 2 or 3 live neighbours or dead with exactly 3, the counts being
\* those of the generation before the tick (pre); and the 3x3 torus with only
\* row 1 alive becomes all alive (each live cell has 2 live neighbours, each
\* dead cell 3).
C1Theorem ==
    TickDone =>
        /\ Len(cells) = Len(pre)
        /\ \A r \in 0..(rows - 1), c \in 0..(cols - 1) :
              LET i == r * cols + c + 1
                  n == live_neighbor_count(pre, rows, cols, r, c)
              IN  cells[i] <=> \/ pre[i] /\ (n = 2 \/ n = 3)
                               \/ ~pre[i] /\ n = 3
        /\ (rows = 3 /\ cols = 3 /\ pre = RowOneAlive) => cells = AllAlive9

C1Witness ==
    /\ TickDone
    /\ rows = 3
    /\ cols = 3
    /\ pre = RowOneAlive
    /\ cells = AllAlive9

\* the 8 offsets of the claim: every pair of the two delta lists but the
\* centre one (delta_row = 0, delta_col = 0): positions 1..9 without 5
claimed_count(cs, rs, co, r, c) ==
    LET ds == delta_pairs(rs, co)
        live(k) == IF cs[((r + ds[k][1]) % rs) * co + ((c + ds[k][2]) % co) + 1]
                   THEN 1 ELSE 0
    IN  live(1) + live(2) + live(3) + live(4) + live(6) + live(7) + live(8) + live(9)

\* C2: (the claim as stated) whenever tick calls live_neighbor_count(row, col)
\* on a board with rows >= 1 and cols >= 1, the count is taken over exactly 8
\* positions, the wrapped offsets without the single centre offset.
C2Claim ==
    [][(pc = "tick" /\ pc' = "tick" /\ rows >= 1 /\ cols >= 1) =>
          /\ Len(neighbor_indices(rows, cols, row, col)) = 8
          /\ live_neighbors' = claimed_count(cells, rows, cols, row, col)]_vars

\* C3: after new(rows, cols, seed), cell i < rows*cols is alive iff
\* i < len(seed) and seed[i] is 'G' or 'C'.
C3Theorem ==
    last.op = "new" =>
        \A i \in 0..(rows * cols - 1) :
            /\ i < Len(cells)
            /\ cells[i + 1] <=> /\ i < Len(last.dna)
                                /\ last.dna[i + 1] \in {ByteG, ByteC}

C3Witness ==
    /\ last.op = "new"
    /\ Len(cells) = 2
    /\ Len(last.dna) > Len(cells)
    /\ last.dna[1] = ByteC /\ cells[1]
    /\ last.dna[2] = ByteT /\ ~cells[2]
    /\ last.dna[3] = ByteG

\* C4: the length of cells is rows * cols in every state, and no operation
\* changes rows or cols.
C4Theorem ==
    /\ [](Len(cells) = rows * cols)
    /\ [][rows' = rows /\ cols' = cols]_vars

C4Witness ==
    /\ TickDone
    /\ prev.op = "toggle"
    /\ rows = 2
    /\ cols = 3
    /\ Len(cells) = 6
    /\ cells # pre

\* C5: (the claim as stated) a toggle with row >= rows or col >= cols is
\* signalled (a panic is taken for the signal) and leaves the cells unchanged.
C5Claim ==
    (last.op = "toggle" /\ ~InBounds(last.a, last.b)) =>
        /\ last.outcome # "ok"
        /\ cells = pre

\* C6: (the claim as stated) a construction with rows = 0 or cols = 0 fails,
\* so no board has a zero dimension.
C6Claim ==
    /\ rows >= 1 /\ cols >= 1
    /\ (last.op = "new" /\ (last.a = 0 \/ last.b = 0)) => last.outcome # "ok"

\* C7: inside tick the board's cells stay the generation tick began with
\* (pre), every neighbour count is the count over that generation, and cells
\* change in the one step that ends tick, to the complete buffer next.
C7Theorem ==
    [][/\ pc' = "tick" => cells' = pre'
       /\ (pc = "tick" /\ pc' = "tick") =>
              /\ cells' = cells
              /\ live_neighbors' = live_neighbor_count(pre, rows, cols, row, col)
       /\ (pc = "tick" /\ pc' = "idle") =>
              /\ cells' = next
              /\ ~(row < rows /\ col < cols)
       /\ (pc = "idle" /\ pc' = "tick") => cells' = cells]_vars

C7Witness ==
    /\ pc = "tick"
    /\ row >= 1
    /\ live_neighbors = 3
    /\ next # cells
    /\ cells = pre

\* the number of loop iterations tick has completed
iterations_done == row * cols + col

\* C8: on a board with rows >= 1 and cols >= 1 tick never panics and every
\* index an iteration computes is below rows * cols; tick terminates: every
\* step inside tick is one loop iteration that adds one to the count of
\* completed iterations, and that count never exceeds rows * cols.
C8Theorem ==
    /\ []((rows >= 1 /\ cols >= 1) => ~(pc = "panicked" /\ last.op = "tick"))
    /\ []((pc = "tick" /\ row < rows /\ col < cols) =>
              \A i \in iteration_indices(rows, cols, row, col) :
                  i >= 0 /\ i < rows * cols)
    /\ [](pc = "tick" => iterations_done <= rows * cols)
    /\ [][(pc = "tick" /\ pc' = "tick") => iterations_done' = iterations_done + 1]_vars

C8Witness ==
    /\ TickDone
    /\ rows = 1
    /\ cols = 2
    /\ prev.op = "new"
    /\ pre = <<TRUE, TRUE>>

\* C9: two toggles of the same in-bounds (r, c) in a row restore every cell.
C9Theorem ==
    (/\ last.op = "toggle"
     /\ prev.op = "toggle"
     /\ last.a = prev.a
     /\ last.b = prev.b
     /\ InBounds(last.a, last.b)) =>
        /\ last.outcome = "ok"
        /\ cells = pre2

C9Witness ==
    /\ last.op = "toggle"
    /\ prev.op = "toggle"
    /\ last.a = prev.a
    /\ last.b = prev.b
    /\ InBounds(last.a, last.b)
    /\ cells = pre2
    /\ pre # pre2

\* C10: an in-bounds toggle(row, col) negates the cell at index
\* row * cols + col and leaves every other cell, rows and cols unchanged.
C10Theorem ==
    /\ []((last.op = "toggle" /\ InBounds(last.a, last.b)) =>
              /\ last.outcome = "ok"
              /\ Len(cells) = Len(pre)
              /\ \A i \in 0..(Len(pre) - 1) :
                    cells[i + 1] = IF i = last.a * cols + last.b
                                   THEN ~pre[i + 1]
                                   ELSE pre[i + 1])
    /\ [][last'.op = "toggle" => (rows' = rows /\ cols' = cols)]_vars

C10Witness ==
    /\ last.op = "toggle"
    /\ last.outcome = "ok"
    /\ last.a = 1
    /\ last.b = 2
    /\ rows = 2
    /\ cols = 3
    /\ cells[6] # pre[6]

AllDead(cs) == \A i \in 1..Len(cs) : ~cs[i]

\* C11: a tick of an all-dead board leaves every cell dead, so any number of
\* ticks does.
C11Theorem ==
    /\ (TickDone /\ AllDead(pre)) => AllDead(cells)
    /\ (pc = "tick" /\ AllDead(pre)) => AllDead(next)

C11Witness ==
    /\ TickDone
    /\ prev.op = "tick"
    /\ rows = 3
    /\ cols = 3
    /\ AllDead(pre2)
    /\ AllDead(pre)
    /\ AllDead(cells)

\* the neighbour indices of one call are pairwise different
NoRepeat(idxs) == \A j, k \in 1..Len(idxs) : j # k => idxs[j] # idxs[k]

\* live_neighbor_count(r, c) reads neither the cell itself nor any cell twice
CountsEachOnce(rs, co, r, c) ==
    LET idxs == neighbor_indices(rs, co, r, c)
    IN  /\ \A k \in 1..Len(idxs) : idxs[k] # cell_idx(co, r, c)
        /\ NoRepeat(idxs)

\* tick is about to call live_neighbor_count(row, col)
CountCall == pc = "tick" /\ row < rows /\ col < cols

\* C18: (the claim as stated) on every board with rows >= 1 and cols >= 1,
\* every call live_neighbor_count(row, col) of tick reads neither the cell
\* itself nor any cell twice.
C18Claim ==
    (CountCall /\ rows >= 1 /\ cols >= 1) => CountsEachOnce(rows, cols, row, col)

\* C18 (amended): on every board with rows >= 3 and cols >= 3, every call
\* live_neighbor_count(row, col) of tick reads neither the cell itself nor any
\* cell twice, and it reads 8 cells.
C18Theorem ==
    (CountCall /\ rows >= 3 /\ cols >= 3) =>
        /\ CountsEachOnce(rows, cols, row, col)
        /\ Len(neighbor_indices(rows, cols, row, col)) = 8

\* the count of cell (1, 0) of a 3x3 board whose only dead cell is (0, 1) is 7,
\* and the loop stands at the next call
C18Witness ==
    /\ CountCall
    /\ rows = 3
    /\ cols = 3
    /\ row = 1
    /\ col = 1
    /\ live_neighbors = 7
    /\ ~cells[2]
    /\ \A i \in 1..9 : i # 2 => cells[i]

\* the board cs moved by a rows down and b columns right, with wrap
shift(cs, rs, co, a, b) ==
    [i \in 1..Len(cs) |->
        LET r == (i - 1) \div co
            c == (i - 1) % co
        IN  cs[((r + rs - a) % rs) * co + ((c + co - b) % co) + 1]]

\* C19: a tick of the shifted board is the shifted result of the tick, for
\* every shift (a, b).
C19Theorem ==
    (TickDone /\ rows >= 1 /\ cols >= 1) =>
        \A a \in 0..(rows - 1), b \in 0..(cols - 1) :
            tick_result(shift(pre, rows, cols, a, b), rows, cols)
                = shift(cells, rows, cols, a, b)

C19Witness ==
    /\ TickDone
    /\ rows = 3
    /\ cols = 3
    /\ pre = <<TRUE, TRUE, FALSE, TRUE, FALSE, FALSE, FALSE, FALSE, FALSE>>
    /\ cells # pre
    /\ shift(pre, rows, cols, 1, 2) # pre

\* the positions at which two cell vectors differ
flipped(cs1, cs2) == {i \in 1..Len(cs1) : cs1[i] # cs2[i]}

ClickDone == last.op = "click"

\* the centre of the square of column (or row) k
centre(k) == x_offset(k, CellSize) + CellSize \div 2

\* C12: the vertex list create_grid_vertices returned has rows*cols*6
\* vertices; the 6 vertices of group k are corners of the square of cell k
\* (row k div cols, column k mod cols) and carry the alive colour iff cell k
\* is alive, the dead colour otherwise.
C12Theorem ==
    /\ Len(grid_data) = rows * cols * 6
    /\ \A k \in 0..(rows * cols - 1), j \in 1..6 :
          LET v == grid_data[6 * k + j]
              x0 == (k % cols) * (CellSize + Padding) - Origin
              y0 == (k \div cols) * (CellSize + Padding) - Origin
          IN  /\ v.color = IF cells[k + 1] THEN <<200, 800, 200>> ELSE <<100, 100, 100>>
              /\ v.position[1] \in {x0, x0 + CellSize}
              /\ v.position[2] \in {y0, y0 + CellSize}

C12Witness ==
    /\ rows = 2
    /\ cols = 3
    /\ Len(grid_data) = 36
    /\ cells[4] /\ ~cells[1]
    /\ \A j \in 19..24 : grid_data[j].color = AliveColor
    /\ \A j \in 1..6 : grid_data[j].color = DeadColor
    /\ grid_data[19].position = <<-600, -420>>

\* v lies in no square along one axis of a grid of n squares: before the
\* first, behind the last, or strictly inside a gap
OffSquares(v, n) ==
    \/ v < x_offset(0, CellSize)
    \/ v > x_offset(n - 1, CellSize) + CellSize
    \/ \E k \in 0..(n - 2) :
          v > x_offset(k, CellSize) + CellSize /\ v < x_offset(k + 1, CellSize)

\* C13: a click at the centre of the square of cell (r, c) toggles exactly
\* that cell, and a click inside a padding gap or outside the grid changes no
\* cell.
C13Theorem ==
    ClickDone =>
        /\ \A r \in 0..(rows - 1), c \in 0..(cols - 1) :
              (last.a = centre(c) /\ last.b = centre(r)) =>
                  cells = [pre EXCEPT ![r * cols + c + 1] = ~pre[r * cols + c + 1]]
        /\ (OffSquares(last.a, cols) \/ OffSquares(last.b, rows)) => cells = pre

C13Witness ==
    /\ ClickDone
    /\ rows = 2
    /\ cols = 3
    /\ last.a = centre(2)
    /\ last.b = centre(1)
    /\ cells[6] /\ ~pre[6]

\* the cells whose square contains the point (x, y), by row-major index
squares_at(x, y) ==
    {k \in 0..(rows * cols - 1) :
        /\ x >= x_offset(k % cols, CellSize) /\ x <= x_offset(k % cols, CellSize) + CellSize
        /\ y >= y_offset(k \div cols, CellSize) /\ y <= y_offset(k \div cols, CellSize) + CellSize}

C16Theorem ==
    pc = "idle" => grid_data = create_grid_vertices(cells, rows, cols, CellSize)

C16Witness ==
    /\ TickDone
    /\ cells # pre
    /\ ~pre[1]
    /\ cells[1]
    /\ grid_data[1].color = AliveColor

\* C17: (the claim as stated) the board main starts from is seeded from its
\* DNA sequence: cell i is alive iff symbol i of the sequence is G or C.
C17Claim ==
    last.op = "main" =>
        \A i \in 0..(Len(cells) - 1) :
            cells[i + 1] <=> /\ i < Len(last.dna)
                             /\ last.dna[i + 1] \in {ByteG, ByteC}

====
